---- MODULE Spec2Model ----
(***************************************************************************)
(* Document translation service (src/app.py): a Streamlit script that      *)
(* rasterizes an uploaded PDF, sends every page to a vision model, sends   *)
(* the concatenated text to a translation backend and, on demand, sends    *)
(* the translation to a text model for an explanation.                     *)
(*                                                                         *)
(* Python strings are sequences of one-character strings, so that join,    *)
(* concatenation and startswith are computed as Python computes them.      *)
(* A call's outcome is a record: Return(v) or Raise(message).              *)
(***************************************************************************)
EXTENDS Integers, Sequences, FiniteSets, TLC

VARIABLES
    \* ---- one call of a pure function on stubbed inputs
    fn_response,          \* the ModelResponse the model client returns
    fn_ctor,              \* outcome of genai.GenerativeModel(...)
    fn_gen,               \* outcome of model.generate_content(...)
    fn_called,            \* "none", "process_gemini_response", "explain_and_summarize"
    fn_result,            \* outcome of the call
    \* ---- the script, one run per user interaction
    pc,                   \* position of the running script ("idle" between runs)
    uploaded_file,        \* 0: no upload; n > 0: an uploaded PDF of n pages
    translate_button,     \* what st.button("Translate") returns in this run
    explain_button,       \* what st.button("Explain and Summarize") returns in this run
    pdf_parts,            \* page images, by page number
    page,                 \* index of the next element of pdf_parts in the for loop
    extracted_text,
    translated_text_str,
    explanation,
    shown,                \* widgets rendered by the current run, with their data
    \* ---- history of the current run
    log,                  \* calls of the external collaborators, in order
    translate_arg,        \* text argument of each google_translate call
    summarize_arg,        \* text argument of each explain_and_summarize call
    raised,               \* stage whose exception reached the top-level handler
    explain_request       \* translated text on display when the user clicked Explain

fn_vars == <<fn_response, fn_ctor, fn_gen, fn_called, fn_result>>
run_vars == <<pc, uploaded_file, translate_button, explain_button, pdf_parts, page,
              extracted_text, translated_text_str, explanation, shown, log,
              translate_arg, summarize_arg, raised, explain_request>>
vars == <<fn_response, fn_ctor, fn_gen, fn_called, fn_result,
          pc, uploaded_file, translate_button, explain_button, pdf_parts, page,
          extracted_text, translated_text_str, explanation, shown, log,
          translate_arg, summarize_arg, raised, explain_request>>

----------------------------------------------------------------------------
\* Bounds of the model
MaxParts == 3
MaxRatings == 2
MaxPages == 2

----------------------------------------------------------------------------
\* String literals of src/app.py

\* 'Content was blocked due to '
MsgBlockedHead ==
    <<"C","o","n","t","e","n","t"," ","w","a","s"," ","b","l","o","c","k","e",
      "d"," ","d","u","e"," ","t","o"," ">>

\* ' with '
MsgBlockedWith ==
    <<" ","w","i","t","h"," ">>

\* ' probability.'
MsgBlockedTail ==
    <<" ","p","r","o","b","a","b","i","l","i","t","y",".">>

\* 'The response was blocked or empty.'
MsgBlockedOrEmpty ==
    <<"T","h","e"," ","r","e","s","p","o","n","s","e"," ","w","a","s"," ","b",
      "l","o","c","k","e","d"," ","o","r"," ","e","m","p","t","y",".">>

\* 'The response did not contain any content.'
MsgNoContent ==
    <<"T","h","e"," ","r","e","s","p","o","n","s","e"," ","d","i","d"," ","n",
      "o","t"," ","c","o","n","t","a","i","n"," ","a","n","y"," ","c","o","n",
      "t","e","n","t",".">>

\* 'The response did not contain any text parts.'
MsgNoTextParts ==
    <<"T","h","e"," ","r","e","s","p","o","n","s","e"," ","d","i","d"," ","n",
      "o","t"," ","c","o","n","t","a","i","n"," ","a","n","y"," ","t","e","x",
      "t"," ","p","a","r","t","s",".">>

\* 'An error occurred while generating the explanation: '
MsgExplainError ==
    <<"A","n"," ","e","r","r","o","r"," ","o","c","c","u","r","r","e","d"," ",
      "w","h","i","l","e"," ","g","e","n","e","r","a","t","i","n","g"," ","t",
      "h","e"," ","e","x","p","l","a","n","a","t","i","o","n",":"," ">>

\* 'An error occurred'
PrefixErrorOccurred ==
    <<"A","n"," ","e","r","r","o","r"," ","o","c","c","u","r","r","e","d">>

\* 'Content was blocked'
PrefixContentBlocked ==
    <<"C","o","n","t","e","n","t"," ","w","a","s"," ","b","l","o","c","k","e",
      "d">>

\* 'NEGLIGIBLE'
NEGLIGIBLE ==
    <<"N","E","G","L","I","G","I","B","L","E">>

\* 'An error occurred: '
MsgTopError ==
    <<"A","n"," ","e","r","r","o","r"," ","o","c","c","u","r","r","e","d",":",
      " ">>

\* 'Please check your API keys and try again.'
MsgCheckKeys ==
    <<"P","l","e","a","s","e"," ","c","h","e","c","k"," ","y","o","u","r"," ",
      "A","P","I"," ","k","e","y","s"," ","a","n","d"," ","t","r","y"," ","a",
      "g","a","i","n",".">>

\* "'NoneType' object is not iterable"
NoneNotIterable ==
    <<"'","N","o","n","e","T","y","p","e","'"," ","o","b","j","e","c","t"," ",
      "i","s"," ","n","o","t"," ","i","t","e","r","a","b","l","e">>

\* 'No file uploaded'
MsgNoFile ==
    <<"N","o"," ","f","i","l","e"," ","u","p","l","o","a","d","e","d">>

\* '\n\n'
PageSeparator ==
    <<"\n","\n">>

----------------------------------------------------------------------------
\* Python values

None == [kind |-> "None"]
List(items) == [kind |-> "list", items |-> items]
IsNone(x) == x.kind = "None"
\* Python truthiness of None, a list or an object
Truthy(x) == IF x.kind = "None" THEN FALSE
             ELSE IF x.kind = "list" THEN Len(x.items) > 0
             ELSE TRUE

Return(v) == [kind |-> "return", val |-> v]
Raise(m) == [kind |-> "raise", val |-> m]
Ok == Return(<<>>)

\* str.startswith
StartsWith(s, prefix) ==
    /\ Len(s) >= Len(prefix)
    /\ SubSeq(s, 1, Len(prefix)) = prefix

\* hasattr(part, 'text')
HasAttrText(part) == "text" \in DOMAIN part

\* Join with the separator left out
RECURSIVE JoinNoSeparator(_, _)
JoinNoSeparator(sep, strings) ==
    IF Len(strings) = 0 THEN <<>>
    ELSE strings[1] \o JoinNoSeparator(sep, Tail(strings))

\* sep.join(strings)
RECURSIVE Join(_, _)
Join(sep, strings) ==
    IF Len(strings) = 0 THEN <<>>
    ELSE IF Len(strings) = 1 THEN strings[1]
    ELSE strings[1] \o sep \o Join(sep, Tail(strings))

\* [part.text for part in parts if hasattr(part, 'text')]
RECURSIVE TextParts(_)
TextParts(parts) ==
    IF Len(parts) = 0 THEN <<>>
    ELSE IF HasAttrText(parts[1]) THEN <<parts[1].text>> \o TextParts(Tail(parts))
    ELSE TextParts(Tail(parts))

\* for rating in safety_ratings: if rating.probability != "NEGLIGIBLE": return ...
RECURSIVE FirstBlocking(_)
FirstBlocking(ratings) ==
    IF Len(ratings) = 0 THEN None
    ELSE IF ratings[1].probability # NEGLIGIBLE
         THEN [kind |-> "rating", rating |-> ratings[1]]
    ELSE FirstBlocking(Tail(ratings))

BlockedMessage(rating) ==
    MsgBlockedHead \o rating.category \o MsgBlockedWith \o rating.probability
        \o MsgBlockedTail

\* process_gemini_response, lines 67-72: the response has no candidates
NoCandidates(response) ==
    IF Truthy(response.prompt_feedback)
    THEN IF IsNone(response.prompt_feedback.safety_ratings)
         THEN Raise(NoneNotIterable)      \* iterating None: TypeError
         ELSE LET hit == FirstBlocking(response.prompt_feedback.safety_ratings.items)
              IN  IF IsNone(hit) THEN Return(MsgBlockedOrEmpty)
                  ELSE Return(BlockedMessage(hit.rating))
    ELSE Return(MsgBlockedOrEmpty)

\* process_gemini_response, lines 74-82: the first candidate
FirstCandidate(response) ==
    LET candidate == response.candidates.items[1]
    IN  IF IsNone(candidate.content) \/ IsNone(candidate.content.parts)
        THEN Return(MsgNoContent)
        ELSE LET text_parts == TextParts(candidate.content.parts.items)
             IN  IF Len(text_parts) = 0 THEN Return(MsgNoTextParts)
                 ELSE Return(Join(<<" ">>, text_parts))

process_gemini_response(response) ==
    IF ~Truthy(response.candidates) THEN NoCandidates(response)
    ELSE FirstCandidate(response)

\* explain_and_summarize: ctor is the outcome of GenerativeModel('gemini-pro')
\* (line 94, outside the try), gen the outcome of generate_content (line 102,
\* inside it); on success generate_content returns response.
explain_and_summarize(text, ctor, gen, response) ==
    IF ctor.kind = "raise" THEN ctor
    ELSE IF gen.kind = "raise" THEN Return(MsgExplainError \o gen.val)
    ELSE LET r == process_gemini_response(response)
         IN  IF r.kind = "raise" THEN Return(MsgExplainError \o r.val)
             ELSE r

----------------------------------------------------------------------------
\* Inputs: the shapes a ModelResponse can take, and the failures of the stubs

SeqsUpTo(S, n) == UNION {[1..k -> S] : k \in 0..n}

Texts == {<<"A">>, <<"B">>}
Parts == {[text |-> t] : t \in Texts} \cup {[function_call |-> <<"f">>]}
Content(parts) == [kind |-> "Content", parts |-> parts]
Contents ==
    {None, Content(None)} \cup {Content(List(p)) : p \in SeqsUpTo(Parts, MaxParts)}
Candidates == {[content |-> c] : c \in Contents}
\* candidates after index 0
LaterCandidates ==
    {[content |-> None], [content |-> Content(List(<<[text |-> <<"B">>]>>))]}

Categories == {<<"X">>, <<"Y">>}
Probabilities == {NEGLIGIBLE, <<"L","O","W">>, <<"H","I","G","H">>}
Ratings == {[category |-> c, probability |-> p] : c \in Categories, p \in Probabilities}
Feedback(ratings) == [kind |-> "PromptFeedback", safety_ratings |-> ratings]
Feedbacks ==
    {None, Feedback(None)} \cup {Feedback(List(r)) : r \in SeqsUpTo(Ratings, MaxRatings)}
HighX == [category |-> <<"X">>, probability |-> <<"H","I","G","H">>]

Response(candidates, feedback) ==
    [candidates |-> candidates, prompt_feedback |-> feedback]
Responses ==
    {Response(c, f) : c \in {None, List(<<>>)}, f \in Feedbacks}
    \cup {Response(List(<<c>>), f) :
            c \in Candidates, f \in {None, Feedback(List(<<HighX>>))}}
    \cup {Response(List(<<c, d>>), f) :
            c \in Candidates, d \in LaterCandidates,
            f \in {None, Feedback(List(<<HighX>>))}}

\* messages of the exceptions the remote clients raise
ErrorMessages == {<<"q","u","o","t","a">>, <<>>}
Failures == {Raise(m) : m \in ErrorMessages}

\* the responses the script's runs are driven with: one per outcome of
\* process_gemini_response
TextA == Response(List(<<[content |-> Content(List(<<[text |-> <<"A">>]>>))]>>), None)
TextB == Response(List(<<[content |-> Content(List(<<[text |-> <<"B">>]>>))]>>), None)
SampleResponses ==
    { TextA, TextB,
      Response(List(<<>>), None),
      Response(None, Feedback(List(<<HighX>>))),
      Response(List(<<>>), Feedback(None)),
      Response(List(<<[content |-> None]>>), None),
      Response(List(<<[content |-> Content(List(<<[function_call |-> <<"f">>]>>))]>>),
               None) }

\* what the translation backend returns
Translations == {<<"T">>, <<"U">>}

----------------------------------------------------------------------------
\* One call of process_gemini_response or explain_and_summarize on stubs

NoRun ==
    /\ pc = "idle"
    /\ uploaded_file = 0
    /\ translate_button = FALSE
    /\ explain_button = FALSE
    /\ pdf_parts = <<>>
    /\ page = 1
    /\ extracted_text = <<>>
    /\ translated_text_str = <<>>
    /\ explanation = <<>>
    /\ log = <<>>
    /\ translate_arg = <<>>
    /\ summarize_arg = <<>>
    /\ raised = None
    /\ explain_request = None

InitFunctions ==
    /\ fn_response \in Responses
    /\ fn_ctor \in {Ok} \cup Failures
    /\ fn_gen \in {Ok} \cup Failures
    /\ fn_called = "none"
    /\ fn_result = Ok
    /\ NoRun
    /\ shown = {}

CallNormalize ==
    /\ fn_called = "none"
    /\ fn_called' = "process_gemini_response"
    /\ fn_result' = process_gemini_response(fn_response)
    /\ UNCHANGED <<fn_response, fn_ctor, fn_gen>>
    /\ UNCHANGED run_vars

CallSummarize ==
    /\ fn_called = "none"
    /\ fn_called' = "explain_and_summarize"
    /\ fn_result' = explain_and_summarize(<<"T">>, fn_ctor, fn_gen, fn_response)
    /\ UNCHANGED <<fn_response, fn_ctor, fn_gen>>
    /\ UNCHANGED run_vars

NextFunctions == CallNormalize \/ CallSummarize

SpecFunctions == InitFunctions /\ [][NextFunctions]_vars

----------------------------------------------------------------------------
\* The script (lines 107-169), re-run from the top on every interaction

Widget(key, data) == [key |-> key, data |-> data]
Keys(widgets) == {w.key : w \in widgets}

Entry(op, n, response, result) ==
    [op |-> op, page |-> n, response |-> response, result |-> result]

Raised(stage, message, at) ==
    [kind |-> "raised", stage |-> stage, message |-> message, at |-> at]

\* lines 49-52: the image of page n, JPEG then base64
PageImage(n) == [mime_type |-> "image/jpeg", data |-> n]

\* input_pdf_setup: convert is the outcome of pdf2image.convert_from_bytes
\* (line 42), whose exception is not caught; without an upload the function
\* raises FileNotFoundError (lines 54-55); otherwise one PageImage per page,
\* in page order
input_pdf_setup(file, convert) ==
    IF file = 0 THEN Raise(MsgNoFile)
    ELSE IF convert.kind = "raise" THEN convert
    ELSE Return([n \in 1..file |-> PageImage(n)])

\* google_translate: the backend's answer, passed through
google_translate(text, backend) == backend

\* Accumulate with the separator between pages only
AccumulateBetween(text, page_text) ==
    IF text = <<>> THEN page_text ELSE text \o PageSeparator \o page_text

\* line 124
Accumulate(text, page_text) == text \o page_text \o PageSeparator

\* AfterPage leaving the loop after its first iteration
AfterPageEarly(n, parts) == "translate"

\* the for loop of line 122: back to the loop body, or on to line 126
AfterPage(n, parts) == IF n < Len(parts) THEN "extract" ELSE "translate"

\* line 145
OffersDownload(text) ==
    /\ ~StartsWith(text, PrefixErrorOccurred)
    /\ ~StartsWith(text, PrefixContentBlocked)

\* lines 109-114 and 168-169: a new run of the script, with the values the two
\* st.button calls return in it
BeginRun(file, tb, eb) ==
    /\ pc = "idle"
    /\ uploaded_file' = file
    /\ translate_button' = tb
    /\ explain_button' = eb
    /\ pdf_parts' = <<>>
    /\ page' = 1
    /\ extracted_text' = <<>>
    /\ translated_text_str' = <<>>
    /\ explanation' = <<>>
    /\ log' = <<>>
    /\ translate_arg' = <<>>
    /\ summarize_arg' = <<>>
    /\ raised' = None
    /\ IF file = 0
       THEN /\ shown' = {Widget("upload_warning", <<>>)}
            /\ pc' = "idle"
       ELSE /\ shown' = {Widget("translate_button", <<>>)}
            /\ pc' = IF tb THEN "setup" ELSE "idle"
    /\ UNCHANGED fn_vars

\* the user uploads a PDF of n pages, or removes the upload (n = 0)
UploadFile ==
    \E n \in 0..MaxPages :
        /\ BeginRun(n, FALSE, FALSE)
        /\ explain_request' = None

\* a run in which st.button returns whatever its caller's environment makes it
ScriptRun ==
    \E tb \in BOOLEAN, eb \in BOOLEAN :
        /\ BeginRun(uploaded_file, tb, eb)
        /\ explain_request' = None

\* Streamlit: a button returns True only in the run its own click triggers
ClickTranslate ==
    /\ "translate_button" \in Keys(shown)
    /\ BeginRun(uploaded_file, TRUE, FALSE)
    /\ explain_request' = None

ClickExplain ==
    /\ "explain_button" \in Keys(shown)
    /\ BeginRun(uploaded_file, FALSE, TRUE)
    /\ explain_request' = [kind |-> "request", text |-> translated_text_str]

\* line 117
Setup ==
    /\ pc = "setup"
    /\ \E convert \in {Ok} \cup Failures :
         LET r == input_pdf_setup(uploaded_file, convert)
             entry == Entry("rasterize", 0, None, r.kind)
         IN  /\ log' = Append(log, entry)
             /\ IF r.kind = "raise"
                THEN /\ raised' = Raised("rasterize", r.val, Len(log) + 1)
                     /\ pc' = "except"
                     /\ UNCHANGED pdf_parts
                ELSE /\ pdf_parts' = r.val
                     /\ pc' = "vision_model"
                     /\ UNCHANGED raised
    /\ UNCHANGED <<uploaded_file, translate_button, explain_button, page,
                   extracted_text, translated_text_str, explanation, shown,
                   translate_arg, summarize_arg, explain_request>>
    /\ UNCHANGED fn_vars

\* lines 120-121
StartExtraction ==
    /\ pc = "vision_model"
    /\ \E ctor \in {Ok} \cup Failures :
         LET entry == Entry("vision_model", 0, None, ctor.kind)
         IN  /\ log' = Append(log, entry)
             /\ IF ctor.kind = "raise"
                THEN /\ raised' = Raised("extract", ctor.val, Len(log) + 1)
                     /\ pc' = "except"
                ELSE /\ pc' = AfterPage(0, pdf_parts)
                     /\ UNCHANGED raised
    /\ extracted_text' = <<>>
    /\ page' = 1
    /\ UNCHANGED <<uploaded_file, translate_button, explain_button, pdf_parts,
                   translated_text_str, explanation, shown,
                   translate_arg, summarize_arg, explain_request>>
    /\ UNCHANGED fn_vars

\* lines 122-124, one iteration
ExtractPage ==
    /\ pc = "extract"
    /\ \E gen \in {Ok} \cup Failures, response \in SampleResponses :
         LET answer == IF gen.kind = "raise" THEN None ELSE response
             entry == Entry("generate_content", pdf_parts[page].data, answer, gen.kind)
             r == IF gen.kind = "raise" THEN gen ELSE process_gemini_response(response)
         IN  /\ log' = Append(log, entry)
             /\ IF r.kind = "raise"
                THEN /\ raised' = Raised("extract", r.val, Len(log) + 1)
                     /\ pc' = "except"
                     /\ UNCHANGED <<extracted_text, page>>
                ELSE /\ extracted_text' = Accumulate(extracted_text, r.val)
                     /\ page' = page + 1
                     /\ pc' = AfterPage(page, pdf_parts)
                     /\ UNCHANGED raised
    /\ UNCHANGED <<uploaded_file, translate_button, explain_button, pdf_parts,
                   translated_text_str, explanation, shown,
                   translate_arg, summarize_arg, explain_request>>
    /\ UNCHANGED fn_vars

\* lines 126-127
Translate ==
    /\ pc = "translate"
    /\ \E backend \in {Return(t) : t \in Translations} \cup Failures :
         LET r == google_translate(extracted_text, backend)
             entry == Entry("translate", 0, None, r.kind)
         IN  /\ log' = Append(log, entry)
             /\ translate_arg' = Append(translate_arg, extracted_text)
             /\ IF r.kind = "raise"
                THEN /\ raised' = Raised("translate", r.val, Len(log) + 1)
                     /\ pc' = "except"
                     /\ UNCHANGED translated_text_str
                ELSE /\ translated_text_str' = r.val
                     /\ pc' = "results"
                     /\ UNCHANGED raised
    /\ UNCHANGED <<uploaded_file, translate_button, explain_button, pdf_parts, page,
                   extracted_text, explanation, shown, summarize_arg,
                   explain_request>>
    /\ UNCHANGED fn_vars

\* lines 129-135 and 138
ResultWidgets ==
    { Widget("success", <<>>),
      Widget("original_text", extracted_text),
      Widget("translated_text", translated_text_str),
      Widget("explain_button", <<>>) }

\* lines 141-154
ExplanationWidgets(text) ==
    { Widget("explanation", text) }
    \cup (IF OffersDownload(text)
          THEN {Widget("download_explanation", text)}
          ELSE {Widget("warning", <<>>)})

\* lines 157-163
DownloadTranslated == {Widget("download_translated", translated_text_str)}

\* lines 129-163
ShowResults ==
    /\ pc = "results"
    /\ IF explain_button
       THEN \E ctor \in {Ok} \cup Failures, gen \in {Ok} \cup Failures,
               response \in SampleResponses :
              LET r == explain_and_summarize(translated_text_str, ctor, gen, response)
                  entry == Entry("summarize", 0, None, r.kind)
              IN  /\ log' = Append(log, entry)
                  /\ summarize_arg' = Append(summarize_arg, translated_text_str)
                  /\ IF r.kind = "raise"
                     THEN /\ raised' = Raised("summarize", r.val, Len(log) + 1)
                          /\ pc' = "except"
                          /\ shown' = shown \cup ResultWidgets
                          /\ UNCHANGED explanation
                     ELSE /\ explanation' = r.val
                          /\ shown' = shown \cup ResultWidgets
                                        \cup ExplanationWidgets(r.val)
                                        \cup DownloadTranslated
                          /\ pc' = "idle"
                          /\ UNCHANGED raised
       ELSE /\ shown' = shown \cup ResultWidgets \cup DownloadTranslated
            /\ pc' = "idle"
            /\ UNCHANGED <<log, summarize_arg, raised, explanation>>
    /\ UNCHANGED <<uploaded_file, translate_button, explain_button, pdf_parts, page,
                   extracted_text, translated_text_str, translate_arg,
                   explain_request>>
    /\ UNCHANGED fn_vars

\* TopLevelExcept also rendering the text extracted so far
TopLevelExceptPartial ==
    /\ pc = "except"
    /\ shown' = shown \cup { Widget("error", MsgTopError \o raised.message),
                             Widget("hint", MsgCheckKeys),
                             Widget("original_text", extracted_text) }
    /\ pc' = "idle"
    /\ UNCHANGED <<uploaded_file, translate_button, explain_button, pdf_parts, page,
                   extracted_text, translated_text_str, explanation, log,
                   translate_arg, summarize_arg, raised, explain_request>>
    /\ UNCHANGED fn_vars

\* lines 165-167
TopLevelExcept ==
    /\ pc = "except"
    /\ shown' = shown \cup { Widget("error", MsgTopError \o raised.message),
                             Widget("hint", MsgCheckKeys) }
    /\ pc' = "idle"
    /\ UNCHANGED <<uploaded_file, translate_button, explain_button, pdf_parts, page,
                   extracted_text, translated_text_str, explanation, log,
                   translate_arg, summarize_arg, raised, explain_request>>
    /\ UNCHANGED fn_vars

Init ==
    /\ fn_response = TextA
    /\ fn_ctor = Ok
    /\ fn_gen = Ok
    /\ fn_called = "none"
    /\ fn_result = Ok
    /\ NoRun
    /\ shown = {Widget("upload_warning", <<>>)}

Next ==
    \/ UploadFile
    \/ ScriptRun
    \/ Setup
    \/ StartExtraction
    \/ ExtractPage
    \/ Translate
    \/ ShowResults
    \/ TopLevelExcept

Spec == Init /\ [][Next]_vars

NextStreamlit ==
    \/ UploadFile
    \/ ClickTranslate
    \/ ClickExplain
    \/ Setup
    \/ StartExtraction
    \/ ExtractPage
    \/ Translate
    \/ ShowResults
    \/ TopLevelExcept

SpecStreamlit == Init /\ [][NextStreamlit]_vars

----------------------------------------------------------------------------
\* Properties of process_gemini_response and explain_and_summarize
\* (checked under SpecFunctions)

Normalized == fn_called = "process_gemini_response"
Summarized == fn_called = "explain_and_summarize"
HasCandidates == Truthy(fn_response.candidates)
FirstContent == fn_response.candidates.items[1].content

\* C1: process_gemini_response returns a string for every response shape and
\* never raises.
C1_NormalizeTotal ==
    Normalized => fn_result.kind = "return"

\* the ratings of the prompt feedback, none when feedback or ratings are absent
ListedRatings ==
    IF IsNone(fn_response.prompt_feedback) THEN <<>>
    ELSE IF IsNone(fn_response.prompt_feedback.safety_ratings) THEN <<>>
    ELSE fn_response.prompt_feedback.safety_ratings.items
Blocking == {i \in DOMAIN ListedRatings : ListedRatings[i].probability # NEGLIGIBLE}
FirstBlockingIndex == CHOOSE i \in Blocking : \A j \in Blocking : i <= j

\* C2: with zero candidates the result is the blocked diagnostic of the first
\* listed rating that is not NEGLIGIBLE, and the generic blocked-or-empty
\* diagnostic when feedback is absent or no rating is above NEGLIGIBLE.
C2_NoCandidates ==
    (Normalized /\ ~HasCandidates) =>
        fn_result = Return(IF Blocking = {} THEN MsgBlockedOrEmpty
                           ELSE BlockedMessage(ListedRatings[FirstBlockingIndex]))

NoParts ==
    \/ IsNone(FirstContent)
    \/ IsNone(FirstContent.parts)
    \/ Len(FirstContent.parts.items) = 0

\* C3: with a first candidate whose content is absent or has no parts (absent
\* or empty), the result is the no-content diagnostic.
C3_NoContent ==
    (Normalized /\ HasCandidates /\ NoParts) => fn_result = Return(MsgNoContent)

TextIndexes(parts) == {i \in DOMAIN parts : DOMAIN parts[i] = {"text"}}
Last(idx) == CHOOSE i \in idx : \A j \in idx : j <= i
RECURSIVE SpaceJoined(_, _)
SpaceJoined(parts, idx) ==
    IF idx = {} THEN <<>>
    ELSE LET m == Last(idx)
         IN  (IF idx = {m} THEN <<>> ELSE SpaceJoined(parts, idx \ {m}) \o <<" ">>)
             \o parts[m].text

\* C4: when the first candidate has parts, the result is the texts of the parts
\* of candidate 0 that carry text, in order, joined by one space; it does not
\* depend on later candidates; with no text-carrying part it is the
\* no-text-parts diagnostic.
C4_FirstCandidateTexts ==
    (Normalized /\ HasCandidates /\ ~NoParts) =>
        LET parts == FirstContent.parts.items
        IN  fn_result = Return(IF TextIndexes(parts) = {} THEN MsgNoTextParts
                               ELSE SpaceJoined(parts, TextIndexes(parts)))

\* a first candidate with text "A", a part without text and text "B", followed
\* by a second candidate, normalized to "A B"
C4_Witness ==
    /\ Normalized
    /\ HasCandidates
    /\ Len(fn_response.candidates.items) = 2
    /\ ~IsNone(FirstContent)
    /\ ~IsNone(FirstContent.parts)
    /\ FirstContent.parts.items =
         <<[text |-> <<"A">>], [function_call |-> <<"f">>], [text |-> <<"B">>]>>
    /\ fn_result = Return(<<"A", " ", "B">>)

\* C5: explain_and_summarize always returns a string: the error string with
\* the failure's message when creating the model client or generating content
\* fails, and otherwise what process_gemini_response returns.
C5_SummarizeTotal ==
    Summarized =>
        /\ fn_result.kind = "return"
        /\ fn_ctor.kind = "raise" => fn_result.val = MsgExplainError \o fn_ctor.val
        /\ (fn_ctor.kind # "raise" /\ fn_gen.kind = "raise") =>
               fn_result.val = MsgExplainError \o fn_gen.val
        /\ (/\ fn_ctor.kind # "raise"
            /\ fn_gen.kind # "raise"
            /\ process_gemini_response(fn_response).kind = "return") =>
               fn_result = process_gemini_response(fn_response)

----------------------------------------------------------------------------
\* Properties of the script's runs (checked under Spec)

Before(i) == {j \in DOMAIN log : j < i}
Calls(op) == {i \in DOMAIN log : log[i].op = op}
VisionCalls == SelectSeq(log, LAMBDA e : e.op = "generate_content")

RECURSIVE PagesText(_)
PagesText(entries) ==
    IF Len(entries) = 0 THEN <<>>
    ELSE process_gemini_response(entries[1].response).val \o PageSeparator
         \o PagesText(Tail(entries))

\* C6: the text handed to the translator is, for the pages 1..N in order, the
\* normalized response of the page followed by a blank line (also after the
\* last page); the vision model is called exactly once per page, in page order.
C6_ExtractedText ==
    \A k \in DOMAIN translate_arg :
        /\ Len(VisionCalls) = uploaded_file
        /\ \A n \in DOMAIN VisionCalls : VisionCalls[n].page = n
        /\ translate_arg[k] = PagesText(VisionCalls)

\* two pages answered "A" and "B": "A\n\nB\n\n" goes to the translator
C6_Witness ==
    /\ uploaded_file = 2
    /\ translate_arg = << <<"A", "\n", "\n", "B", "\n", "\n">> >>

FailFastStages == {"rasterize", "extract", "translate"}
ResultKeys ==
    {"success", "original_text", "translated_text", "explain_button",
     "explanation", "download_explanation", "warning", "download_translated"}

\* C7: when rasterization, an extraction or translation raises, nothing is
\* invoked after the failing call, no result widget is rendered, and the
\* top-level handler renders the failure message.
C7_FailFast ==
    (raised.kind = "raised" /\ raised.stage \in FailFastStages) =>
        /\ pc \in {"except", "idle"}
        /\ Len(log) = raised.at
        /\ Keys(shown) \cap ResultKeys = {}
        /\ pc = "idle" => Widget("error", MsgTopError \o raised.message) \in shown

\* a run whose translation failed after two pages were extracted
C7_Witness ==
    /\ raised.kind = "raised"
    /\ raised.stage = "translate"
    /\ Len(VisionCalls) = 2
    /\ extracted_text # <<>>
    /\ pc = "idle"

\* C8: no vision call before rasterization returned; pages are extracted one
\* after the other in page order; the translator is called after the last
\* page's extraction returned; the summarizer only after the translator
\* returned.
C8_Sequenced ==
    /\ \A i \in Calls("generate_content") :
         /\ \E j \in Before(i) : log[j].op = "rasterize" /\ log[j].result = "return"
         /\ log[i].page = 1 + Cardinality(Before(i) \cap Calls("generate_content"))
         /\ \A j \in Before(i) \cap Calls("generate_content") : log[j].result = "return"
    /\ \A i \in Calls("translate") :
         /\ Cardinality(Before(i) \cap Calls("generate_content")) = uploaded_file
         /\ \A j \in Before(i) : log[j].result = "return"
    /\ \A i \in Calls("summarize") :
         \E j \in Before(i) : log[j].op = "translate" /\ log[j].result = "return"

\* a run over two pages that reached the summarizer
C8_Witness ==
    /\ uploaded_file = 2
    /\ Calls("summarize") # {}
    /\ Cardinality(Calls("generate_content")) = 2

IsErrorMessage(text) ==
    \/ StartsWith(text, MsgExplainError)
    \/ StartsWith(text, MsgBlockedHead)
    \/ text \in {MsgBlockedOrEmpty, MsgNoContent, MsgNoTextParts}

\* C9: when the explanation is the exception string or a diagnostic of
\* process_gemini_response, the explanation download is not offered and the
\* warning is shown.
C9_DownloadGated ==
    \A w \in shown :
        (w.key = "explanation" /\ IsErrorMessage(w.data)) =>
            /\ "download_explanation" \notin Keys(shown)
            /\ "warning" \in Keys(shown)

----------------------------------------------------------------------------
\* Property of the script under Streamlit's reruns (checked under SpecStreamlit)

\* C10: the run that the click on "Explain and Summarize" triggers calls
\* explain_and_summarize with the translated text that was on display, and
\* renders its result.
C10_ExplainOnDemand ==
    (pc = "idle" /\ explain_request.kind = "request") =>
        /\ summarize_arg = <<explain_request.text>>
        /\ "explanation" \in Keys(shown)

====
